---- MODULE Spec2Model ----
(***************************************************************************)
(* Model of src/src/lambda_handler.py: the daily request-budget tracker    *)
(* (api_request_count), and the fetch / enrich / publish pipeline run by   *)
(* lambda_handler.                                                         *)
(*                                                                         *)
(* Two specifications:                                                     *)
(*   Spec      sequential invocations of lambda_handler (one logical       *)
(*             thread of control), the environment choosing every          *)
(*             external outcome and the calendar date advancing;           *)
(*   SpecRace  concurrent callers of api_request_count on one bucket,      *)
(*             each network call (get_object, put_object) one step.        *)
(***************************************************************************)
EXTENDS Integers, Sequences, FiniteSets, TLC

\* ------------------------------------------------------------------ bounds
\* concurrent callers of api_request_count (SpecRace)
NumProcs == 2
\* calls that may start while another call is in flight (SpecRace)
MaxOverlap == 3
\* calendar dates 1..MaxDay
MaxDay == 2
\* calls of api_request_count counted on one date
MaxCalls == 53
\* length of the results list of one search response
MaxResults == 2

\* --------------------------------------------------------------- constants
\* lambda_handler.py:308  tracking_data['count'] >= 50
Cap == 50

Procs == 1..NumProcs
\* the process that runs lambda_handler in Spec
H == 1

VARIABLES
    today,          \* datetime.date.today(), the calendar date
    store,          \* the S3 object api_request_tracker.json of the bucket
    pc,             \* per process: position in the code
    ltoday,         \* per process: local `today` of api_request_count (line 284)
    read_obj,       \* per process: what get_object returned (lines 287-297)
    tracking_data,  \* per process: local tracking_data
    ret,            \* per process: return value of api_request_count
    calls,          \* history: calls completed for the current date
    granted,        \* history: calls that returned True for the current date
    overlaps,       \* history: calls started while another call was in flight
    cfg,            \* environment variables as read by this invocation
    articles,       \* raw results of extract_guardian_articles
    filtered,       \* filtered_articles of processed_guardian_articles
    idx,            \* loop index of the article loop / the send loop
    exc,            \* exception raised by extract_guardian_articles
    api_key,        \* guardian_api_key of extract_guardian_articles
    response,       \* what the search request came back with (lines 148-150)
    records,        \* the `articles` argument of send_to_sqs
    messageId,      \* what send_to_sqs returned (line 57)
    result,         \* outcome of lambda_handler
    last,           \* history: the handler's latest api_request_count call
    log             \* external calls made by the current invocation, in order

pipeVars == <<cfg, articles, filtered, idx, exc, api_key, response, records, messageId,
              result, last, log>>
vars == <<today, store, pc, ltoday, read_obj, tracking_data, ret, calls, granted,
          overlaps, cfg, articles, filtered, idx, exc, api_key, response, records,
          messageId, result, last, log>>

\* ------------------------------------------------------------ S3 object
NoObject == [exists |-> FALSE, date |-> 0, count |-> 0]
Object(d, c) == [exists |-> TRUE, date |-> d, count |-> c]
NoData == [date |-> 0, count |-> 0]

\* faulty variant: a missing object read as a first request already made
ReadTracking_one(obj, tdy) ==
    IF obj.exists THEN [date |-> obj.date, count |-> obj.count]
                  ELSE [date |-> tdy, count |-> 1]

\* lines 286-297: the object's JSON body, or {today, 0} on NoSuchKey
ReadTracking(obj, tdy) ==
    IF obj.exists THEN [date |-> obj.date, count |-> obj.count]
                  ELSE [date |-> tdy, count |-> 0]

\* faulty variant: the date is renewed but the count is carried over
ResetIfStale_carry(td, tdy) ==
    IF td.date # tdy THEN [date |-> tdy, count |-> td.count] ELSE td

\* lines 299-305: reset the tracking data when its date is not today
ResetIfStale(td, tdy) ==
    IF td.date # tdy THEN [date |-> tdy, count |-> 0] ELSE td

\* faulty variant: the limit is never looked at
LimitReached_never(td) == FALSE

\* faulty variant: > instead of >=
LimitReached_strict(td) == td.count > Cap

\* line 308
LimitReached(td) == td.count >= Cap

\* line 313
Incremented(td) == [td EXCEPT !.count = @ + 1]

\* faulty variant: the increment and the write come before the limit check
StoreAfter_always(obj, td) == Object(td.date, td.count + 1)

\* faulty variant: a conditional write, skipped when the object has changed
\* since it was read
StoreAfter_cas(obj, td) ==
    IF td.count >= Cap \/ (obj.exists /\ obj.count # td.count)
    THEN obj
    ELSE Object(td.date, td.count + 1)

\* lines 307-319: the object stored after the call (put_object overwrites it
\* wholesale with the local tracking data; no write on the denied path)
StoreAfter(obj, td) ==
    IF LimitReached(td) THEN obj ELSE Object(Incremented(td).date, Incremented(td).count)

InFlight(p) == pc[p] \in {"get", "check"}

\* ------------------------------------------------- api_request_count steps
\* lines 281-284: the call starts and takes today's date
api_request_count_call(p) ==
    /\ pc[p] = "idle"
    /\ calls < MaxCalls
    /\ pc' = [pc EXCEPT ![p] = "get"]
    /\ ltoday' = [ltoday EXCEPT ![p] = today]
    /\ ret' = [ret EXCEPT ![p] = "none"]
    /\ UNCHANGED <<today, store, read_obj, tracking_data, calls, granted>>

\* lines 286-297: s3_client.get_object
api_request_count_get_object(p) ==
    /\ pc[p] = "get"
    /\ pc' = [pc EXCEPT ![p] = "check"]
    /\ read_obj' = [read_obj EXCEPT ![p] = store]
    /\ tracking_data' = [tracking_data EXCEPT ![p] = ReadTracking(store, ltoday[p])]
    /\ UNCHANGED <<today, store, ltoday, ret, calls, granted>>

\* lines 299-319: reset, limit check, increment, s3_client.put_object, return
\* (the locals go with the frame)
api_request_count_check_and_put(p, next) ==
    /\ pc[p] = "check"
    /\ LET td == ResetIfStale(tracking_data[p], ltoday[p])
           ok == ~LimitReached(td)
       IN /\ store' = StoreAfter(store, td)
          /\ ret' = [ret EXCEPT ![p] = IF ok THEN "True" ELSE "False"]
          /\ calls' = IF ltoday[p] = today THEN calls + 1 ELSE calls
          /\ granted' = IF ltoday[p] = today /\ ok THEN granted + 1 ELSE granted
    /\ pc' = [pc EXCEPT ![p] = next]
    /\ ltoday' = [ltoday EXCEPT ![p] = 0]
    /\ read_obj' = [read_obj EXCEPT ![p] = NoObject]
    /\ tracking_data' = [tracking_data EXCEPT ![p] = NoData]
    /\ UNCHANGED today

\* midnight: datetime.date.today() moves to the next date
NewDay ==
    /\ today < MaxDay
    /\ today' = today + 1
    /\ calls' = 0
    /\ granted' = 0
    /\ UNCHANGED <<store, pc, ltoday, read_obj, tracking_data, ret>>

\* ----------------------------------------------------- values and inputs
\* an environment variable: None (unset) or a string, kept as its characters
Unread == [read |-> FALSE, isstr |-> FALSE, chars |-> <<>>]
EnvNone == [read |-> TRUE, isstr |-> FALSE, chars |-> <<>>]
EnvStr(cs) == [read |-> TRUE, isstr |-> TRUE, chars |-> cs]

\* str.strip(): leading and trailing blanks removed
RECURSIVE LStrip(_)
LStrip(cs) == IF cs # <<>> /\ Head(cs) = " " THEN LStrip(Tail(cs)) ELSE cs
RECURSIVE RStrip(_)
RStrip(cs) ==
    IF cs # <<>> /\ cs[Len(cs)] = " " THEN RStrip(SubSeq(cs, 1, Len(cs) - 1)) ELSE cs
Strip(cs) == RStrip(LStrip(cs))

\* Python truth value of an environment value: None and '' are falsy
Truthy(v) == v.isstr /\ v.chars # <<>>

Terms == {EnvNone, EnvStr(<<>>), EnvStr(<<" ", " ">>), EnvStr(<<" ", "m">>)}
SecretNames == {EnvNone, EnvStr(<<>>), EnvStr(<<"s">>)}
QueueUrls == {EnvNone, EnvStr(<<>>), EnvStr(<<" ">>), EnvStr(<<"q">>)}

NoCfg == [term |-> Unread, secret |-> Unread, queue |-> Unread]

\* exceptions
NoExc == [kind |-> "none", msg |-> ""]
Exc(k, m) == [kind |-> k, msg |-> m]

\* the value get_guardian_api_key returns
NoKey == [kind |-> "none", truthy |-> FALSE, failure |-> FALSE]

\* outcome of lambda_handler: a returned dict or a raised exception
NoResult == [outcome |-> "none", status_code |-> 0, success |-> FALSE, count |-> 0, error |-> "none"]
Return(code, ok, n) ==
    [outcome |-> "return", status_code |-> code, success |-> ok, count |-> n, error |-> "none"]
Raise(e) ==
    [outcome |-> "raise", status_code |-> 0, success |-> FALSE, count |-> 0, error |-> e]

\* a function called on its own (not through lambda_handler) returned normally
Returned == [outcome |-> "return", status_code |-> 0, success |-> FALSE, count |-> 0, error |-> "none"]

\* the search response: whether the body was a well-formed envelope, and its results
NoResponse == [arrived |-> FALSE, results |-> <<>>]
Response(rs) == [arrived |-> TRUE, results |-> rs]

\* the `articles` argument of send_to_sqs: None or a list
NoRecords == [passed |-> FALSE, islist |-> FALSE, items |-> <<>>]
PyNone == [passed |-> TRUE, islist |-> FALSE, items |-> <<>>]
PyList(rs) == [passed |-> TRUE, islist |-> TRUE, items |-> rs]

\* the value send_to_sqs returned: nothing yet, None, or a list of MessageIds
NotCalled == [returned |-> FALSE, isnone |-> FALSE, ids |-> <<>>]
ReturnedNone == [returned |-> TRUE, isnone |-> TRUE, ids |-> <<>>]
ReturnedIds(ids) == [returned |-> TRUE, isnone |-> FALSE, ids |-> ids]

NoLast == [date |-> 0, read |-> NoObject, ret |-> "none", after |-> NoObject]

\* raw results of the search API; webUrl "" stands for a missing or empty
\* webUrl, and an item that is not a JSON object (null, a string, a number)
\* has dict = FALSE
NoUrl == ""
Malformed == [dict |-> FALSE, webTitle |-> "", webUrl |-> NoUrl]
RawItems ==
    { [dict |-> TRUE, webTitle |-> "x", webUrl |-> NoUrl],
      [dict |-> TRUE, webTitle |-> "y", webUrl |-> "u1"],
      [dict |-> TRUE, webTitle |-> "z", webUrl |-> "u2"],
      Malformed }
ResultLists == UNION { [1..n -> RawItems] : n \in 0..MaxResults }

Event(op, arg, ok) == [op |-> op, arg |-> arg, ok |-> ok]
Count(op) == Cardinality({ i \in 1..Len(log) : log[i].op = op })
CountOk(op) == Cardinality({ i \in 1..Len(log) : log[i].op = op /\ log[i].ok })

\* ------------------------------------------------------------------ Init
Init ==
    /\ today = 1
    /\ store = NoObject
    /\ pc = [p \in Procs |-> "idle"]
    /\ ltoday = [p \in Procs |-> 0]
    /\ read_obj = [p \in Procs |-> NoObject]
    /\ tracking_data = [p \in Procs |-> NoData]
    /\ ret = [p \in Procs |-> "none"]
    /\ calls = 0
    /\ granted = 0
    /\ overlaps = 0
    /\ cfg = NoCfg
    /\ articles = <<>>
    /\ filtered = <<>>
    /\ idx = 0
    /\ exc = NoExc
    /\ api_key = NoKey
    /\ response = NoResponse
    /\ records = NoRecords
    /\ messageId = NotCalled
    /\ result = NoResult
    /\ last = NoLast
    /\ log = <<>>

\* ------------------------------------------------- SpecRace: the tracker
\* under concurrent callers (the unit tests call api_request_count directly).
\* Every interleaving of the callers' get_object and put_object steps is
\* explored from the empty bucket; the search is bounded by the number of
\* calls that start while another call is in flight (MaxOverlap).
RaceCall(p) ==
    /\ \/ \A q \in Procs : ~InFlight(q)
       \/ overlaps < MaxOverlap
    /\ api_request_count_call(p)
    /\ overlaps' = IF \E q \in Procs : InFlight(q) THEN overlaps + 1 ELSE overlaps
    /\ UNCHANGED pipeVars

RaceGet(p) == api_request_count_get_object(p) /\ UNCHANGED overlaps /\ UNCHANGED pipeVars

RaceCheck(p) == api_request_count_check_and_put(p, "idle") /\ UNCHANGED overlaps /\ UNCHANGED pipeVars

RaceNewDay == NewDay /\ UNCHANGED overlaps /\ UNCHANGED pipeVars

NextRace ==
    \/ \E p \in Procs : RaceCall(p)
    \/ \E p \in Procs : RaceGet(p)
    \/ \E p \in Procs : RaceCheck(p)
    \/ RaceNewDay

SpecRace == Init /\ [][NextRace]_vars

\* --------------------------------------------- Spec: lambda_handler steps
\* faulty variant: the term is not stripped before it is tested
TermValid_unstripped(t) == t.isstr /\ t.chars # <<>>

\* lines 117-118: isinstance(search_term, str) and search_term.strip()
TermValid(t) == t.isstr /\ Strip(t.chars) # <<>>

\* lines 66-101: what get_guardian_api_key returns for each outcome of
\* get_secret_value; the three failures come back as (non-empty) strings
get_guardian_api_key(outcome) ==
    CASE outcome = "json" -> [kind |-> "dict", truthy |-> TRUE, failure |-> FALSE]
      [] outcome = "raw" -> [kind |-> "str", truthy |-> TRUE, failure |-> FALSE]
      [] outcome = "empty" -> [kind |-> "str", truthy |-> FALSE, failure |-> FALSE]
      [] outcome = "ClientError" -> [kind |-> "ClientError text", truthy |-> TRUE, failure |-> TRUE]
      [] outcome = "NoCredentialsError" -> [kind |-> "NoCredentials text", truthy |-> TRUE, failure |-> TRUE]
      [] OTHER -> [kind |-> "unexpected error text", truthy |-> TRUE, failure |-> TRUE]
SecretOutcomes == {"json", "raw", "empty", "ClientError", "NoCredentialsError", "Exception"}

\* lines 147-175: the exception extract_guardian_articles raises for a failed
\* request; a malformed envelope raises inside the try block, so it is caught
\* by `except Exception` and raised again with the other failures
SearchError(outcome) ==
    CASE outcome = "Timeout" -> Exc("GuardianAPIError", "Raise Timeout Error")
      [] outcome = "ConnectionError" -> Exc("GuardianAPIError", "Connection Error")
      [] outcome = "HTTPError" -> Exc("GuardianAPIError", "Exception: HTTPError")
      [] OTHER -> Exc("GuardianAPIError", "Exception: Unexcepted API response")
SearchFailures == {"Timeout", "ConnectionError", "HTTPError", "malformed"}

\* lines 323-350: get_content_preview, by outcome of the page fetch
PreviewOutcomes == {"paragraphs", "no_paragraphs", "RequestException", "Exception"}
PreviewRaises(outcome) == outcome = "Exception"
get_content_preview(outcome) ==
    CASE outcome = "paragraphs" -> "text"
      [] outcome = "no_paragraphs" -> "No content is avaiable!"
      [] OTHER -> "Content fetching error"

\* lines 209-215: the preview stored in the record
ContentPreview(outcome) ==
    IF PreviewRaises(outcome) THEN "Content preview is not avaiable."
                              ELSE get_content_preview(outcome)

\* lines 217-222
Record(article, preview) ==
    [webTitle |-> article.webTitle, webUrl |-> article.webUrl, content_preview |-> preview]

\* faulty variant: an item whose preview fetch raises is dropped
Appended_drop(f, article, outcome) ==
    IF outcome = "Exception" THEN f
    ELSE Append(f, Record(article, ContentPreview(outcome)))

\* faulty variant: the new record is put in front of the list
Appended_front(f, article, outcome) == <<Record(article, ContentPreview(outcome))>> \o f

\* lines 209-222: filtered_articles after the item is processed
Appended(f, article, outcome) == Append(f, Record(article, ContentPreview(outcome)))

\* faulty variant: an empty list is reported as a success
NoArticles_success ==
    [outcome |-> "return", status_code |-> 200, success |-> TRUE, count |-> 0, error |-> "none"]

\* lines 51-54: processed_guardian_articles returned [], lambda_handler raises
NoArticles == Raise("NoArticlesFoundError")

\* faulty variant: the exception of extract_guardian_articles is not caught
SoftFail_uncaught(e) == Raise(e.kind)

\* lines 190-195, 51-54: whatever extract_guardian_articles raises is caught
\* by the bare except of processed_guardian_articles, which returns []; for
\* the empty list lambda_handler raises NoArticlesFoundError
SoftFail(e) == NoArticles

\* lines 32-42, 281-284: the invocation starts and enters api_request_count
lambda_handler_invoke ==
    /\ api_request_count_call(H)
    /\ cfg' = NoCfg
    /\ articles' = <<>>
    /\ filtered' = <<>>
    /\ idx' = 0
    /\ exc' = NoExc
    /\ api_key' = NoKey
    /\ result' = NoResult
    /\ response' = NoResponse
    /\ records' = NoRecords
    /\ messageId' = NotCalled
    /\ last' = NoLast
    /\ log' = <<>>
    /\ UNCHANGED overlaps

lambda_handler_get_object ==
    /\ api_request_count_get_object(H)
    /\ log' = Append(log, Event("get_object", "", TRUE))
    /\ UNCHANGED <<overlaps, response, records, messageId, cfg, articles, filtered, idx, exc, api_key, result, last>>

lambda_handler_check_and_put ==
    /\ api_request_count_check_and_put(H, "budget")
    /\ last' = [date |-> ltoday[H], read |-> read_obj[H], ret |-> ret'[H], after |-> store']
    /\ log' = IF ret'[H] = "True" THEN Append(log, Event("put_object", "", TRUE)) ELSE log
    /\ UNCHANGED <<overlaps, response, records, messageId, cfg, articles, filtered, idx, exc, api_key, result>>

\* faulty variant: the return value of api_request_count is ignored
BudgetPermits_ignored == TRUE

\* line 42: `if not api_request_count(bucket_name)`
BudgetPermits == ret[H] = "True"

\* lines 42-47: the budget is used up
lambda_handler_rate_limited ==
    /\ pc[H] = "budget"
    /\ ~BudgetPermits
    /\ result' = Return(429, FALSE, 0)
    /\ pc' = [pc EXCEPT ![H] = "idle"]
    /\ UNCHANGED <<today, store, ltoday, read_obj, tracking_data, ret, calls, granted,
                   overlaps, response, records, messageId,
                   cfg, articles, filtered, idx, exc, api_key, last, log>>

\* lines 49, 190-195, 117-129: processed_guardian_articles calls
\* extract_guardian_articles, which validates the term and the secret name;
\* whatever it raises is caught by the bare except of line 192
extract_guardian_articles_validate ==
    /\ pc[H] = "budget"
    /\ BudgetPermits
    /\ \E t \in Terms, s \in SecretNames :
         IF ~TermValid(t)
         THEN /\ cfg' = [cfg EXCEPT !.term = t]
              /\ exc' = Exc("ValueError", "Invalid search_term or it must not be empty!")
              /\ result' = SoftFail(Exc("ValueError", "Invalid search_term or it must not be empty!"))
              /\ pc' = [pc EXCEPT ![H] = "idle"]
         ELSE IF ~Truthy(s)
         THEN /\ cfg' = [cfg EXCEPT !.term = t, !.secret = s]
              /\ exc' = Exc("GuardianAPIError", "It must not be an empty secret name!")
              /\ result' = SoftFail(Exc("GuardianAPIError", "It must not be an empty secret name!"))
              /\ pc' = [pc EXCEPT ![H] = "idle"]
         ELSE /\ cfg' = [cfg EXCEPT !.term = t, !.secret = s]
              /\ exc' = exc
              /\ result' = result
              /\ pc' = [pc EXCEPT ![H] = "secret"]
    /\ UNCHANGED <<today, store, ltoday, read_obj, tracking_data, ret, calls, granted,
                   overlaps, response, records, messageId,
                   articles, filtered, idx, api_key, last, log>>

\* faulty variant: the return statement stands inside the loop body
LoopOver_early == idx > 1

\* lines 204, 224: the for loop has gone through every raw article, and
\* processed_guardian_articles returns filtered_articles
LoopOver == idx > Len(articles)

\* processed_guardian_articles has two callers: lambda_handler (line 49) and
\* the module itself (line 353). At(c, step) is where caller c stands
At(c, step) ==
    IF c = "lambda_handler" THEN step
    ELSE CASE step = "secret" -> "load_secret"
           [] step = "search" -> "load_search"
           [] OTHER -> "load_loop"

\* what the caller makes of an exception e of extract_guardian_articles:
\* processed_guardian_articles has caught it and returned []
Failed(c, e) == IF c = "lambda_handler" THEN SoftFail(e) ELSE Returned

\* what the caller makes of an empty results list
Empty(c) == IF c = "lambda_handler" THEN NoArticles ELSE Returned

\* lines 131-135, 78-101: the secret is fetched
ExtractGetKey(c) ==
    /\ pc[H] = At(c, "secret")
    /\ \E o \in SecretOutcomes :
         LET key == get_guardian_api_key(o)
         IN /\ log' = Append(log, Event("get_secret_value", "", ~key.failure))
            /\ IF ~key.truthy
               THEN /\ exc' = Exc("GuardianAPIError", "Unable to fetch API KEY, check secret_name!")
                    /\ result' = Failed(c, Exc("GuardianAPIError", "Unable to fetch API KEY, check secret_name!"))
                    /\ api_key' = NoKey
                    /\ pc' = [pc EXCEPT ![H] = "idle"]
               ELSE /\ exc' = exc
                    /\ result' = result
                    /\ api_key' = key
                    /\ pc' = [pc EXCEPT ![H] = At(c, "search")]
    /\ UNCHANGED <<today, store, ltoday, read_obj, tracking_data, ret, calls, granted,
                   overlaps, response, records, messageId,
                   cfg, articles, filtered, idx, last>>

extract_guardian_articles_get_key == ExtractGetKey("lambda_handler")

\* faulty variant: the results come back newest last
Results_reversed(rs) == [i \in 1..Len(rs) |-> rs[Len(rs) + 1 - i]]

\* line 157: the list extract_guardian_articles builds from the response
Results(rs) == [i \in 1..Len(rs) |-> rs[i]]

\* lines 137-175, 197-200: the search request and its response. The API
\* answers with results only when the api-key sent is a key: for the text of
\* a resolver failure sent as api-key it answers with an HTTP error status
\* (or the request fails otherwise)
ExtractRequest(c) ==
    /\ pc[H] = At(c, "search")
    /\ api_key' = NoKey
    /\ \/ \E o \in SearchFailures :
            /\ log' = Append(log, Event("search", "", FALSE))
            /\ response' = response
            /\ exc' = SearchError(o)
            /\ result' = Failed(c, SearchError(o))
            /\ articles' = <<>>
            /\ idx' = idx
            /\ pc' = [pc EXCEPT ![H] = "idle"]
       \/ \E rs \in ResultLists :
            /\ ~api_key.failure
            /\ log' = Append(log, Event("search", "", TRUE))
            /\ response' = Response(rs)
            /\ exc' = exc
            /\ articles' = Results(rs)
            /\ IF rs = <<>>
               THEN /\ result' = Empty(c)
                    /\ idx' = idx
                    /\ pc' = [pc EXCEPT ![H] = "idle"]
               ELSE /\ result' = result
                    /\ idx' = 1
                    /\ pc' = [pc EXCEPT ![H] = At(c, "loop")]
    /\ UNCHANGED <<today, store, ltoday, read_obj, tracking_data, ret, calls, granted,
                   overlaps, records, messageId, cfg, filtered, last>>

extract_guardian_articles_request == ExtractRequest("lambda_handler")

\* lines 204-207: a result without a webUrl is skipped
LoopSkip(c) ==
    /\ pc[H] = At(c, "loop")
    /\ idx <= Len(articles)
    /\ articles[idx].dict
    /\ articles[idx].webUrl = NoUrl
    /\ idx' = idx + 1
    /\ UNCHANGED <<today, store, pc, ltoday, read_obj, tracking_data, ret, calls, granted,
                   overlaps, response, records, messageId,
                   cfg, articles, filtered, exc, api_key, result, last, log>>

processed_guardian_articles_skip == LoopSkip("lambda_handler")

\* lines 204-205: `article.get` on an item that is not a dict raises
\* AttributeError outside the try block of the loop; nothing up to the runtime
\* catches it
LoopMalformed(c) ==
    /\ pc[H] = At(c, "loop")
    /\ idx <= Len(articles)
    /\ ~articles[idx].dict
    /\ result' = Raise("AttributeError")
    /\ pc' = [pc EXCEPT ![H] = "idle"]
    /\ UNCHANGED <<today, store, ltoday, read_obj, tracking_data, ret, calls, granted,
                   overlaps, response, records, messageId,
                   cfg, articles, filtered, idx, exc, api_key, last, log>>

processed_guardian_articles_malformed == LoopMalformed("lambda_handler")

\* lines 209-222: the preview is fetched and the record appended
LoopPreview(c) ==
    /\ pc[H] = At(c, "loop")
    /\ idx <= Len(articles)
    /\ articles[idx].webUrl # NoUrl
    /\ \E o \in PreviewOutcomes :
         /\ filtered' = Appended(filtered, articles[idx], o)
         /\ log' = Append(log, Event("preview", articles[idx].webUrl, o = "paragraphs"))
    /\ idx' = idx + 1
    /\ UNCHANGED <<today, store, pc, ltoday, read_obj, tracking_data, ret, calls, granted,
                   overlaps, response, records, messageId,
                   cfg, articles, exc, api_key, result, last>>

processed_guardian_articles_preview == LoopPreview("lambda_handler")

\* line 240
QueueUrlValid(q) == ~(~Truthy(q) \/ Strip(q.chars) = <<>>)

\* faulty variant: the list is looked at before the queue URL
send_to_sqs_check_listfirst(q, arg) ==
    IF arg.items = <<>> \/ ~arg.islist THEN "NoArticlesFoundError"
    ELSE IF ~QueueUrlValid(q) THEN "ValueError"
    ELSE "ok"

\* lines 238-252: the two checks of send_to_sqs, in the order the code makes
\* them; `not articles` holds for None and for an empty list
send_to_sqs_check(q, arg) ==
    IF ~QueueUrlValid(q) THEN "ValueError"
    ELSE IF arg.items = <<>> \/ ~arg.islist THEN "NoArticlesFoundError"
    ELSE "ok"

\* faulty variant: a failed send is logged and the loop goes on
SendAborts_swallowed(ok) == FALSE

\* lines 262-265: the except block of the send loop ends in `raise`
SendAborts(ok) == ~ok

\* lines 254-265: send_to_sqs has no return statement, so the caller gets
\* None whatever MessageIds the queue handed out
send_to_sqs_returns(ids) == ReturnedNone

\* lines 224, 51-54: the loop is over and nothing is left: lambda_handler
\* raises NoArticlesFoundError
lambda_handler_no_articles ==
    /\ pc[H] = "loop"
    /\ LoopOver
    /\ filtered = <<>>
    /\ result' = NoArticles
    /\ pc' = [pc EXCEPT ![H] = "idle"]
    /\ UNCHANGED <<today, store, ltoday, read_obj, tracking_data, ret, calls, granted,
                   overlaps, response, records, messageId,
                   cfg, articles, filtered, idx, exc, api_key, last, log>>

\* lines 224, 56-57, 237-252: the loop is over; lambda_handler enters
\* send_to_sqs, which reads the queue URL and raises ValueError when it is
\* unset or blank (the list is not empty here, so line 249 passes)
send_to_sqs_validate ==
    /\ pc[H] = "loop"
    /\ LoopOver
    /\ filtered # <<>>
    /\ records' = PyList(filtered)
    /\ \E q \in QueueUrls :
         /\ cfg' = [cfg EXCEPT !.queue = q]
         /\ IF send_to_sqs_check(q, PyList(filtered)) = "ok"
            THEN /\ result' = result
                 /\ idx' = 1
                 /\ pc' = [pc EXCEPT ![H] = "send"]
            ELSE /\ result' = Raise(send_to_sqs_check(q, PyList(filtered)))
                 /\ idx' = idx
                 /\ pc' = [pc EXCEPT ![H] = "idle"]
    /\ UNCHANGED <<today, store, ltoday, read_obj, tracking_data, ret, calls, granted,
                   overlaps, response, messageId,
                   articles, filtered, exc, api_key, last, log>>

\* the MessageIds of the sends that succeeded, oldest first (line 260); the
\* queue's id for a message is modelled by the url of the record it carries
RECURSIVE SentIds(_)
SentIds(l) ==
    IF l = <<>> THEN <<>>
    ELSE IF Head(l).op = "send_message" /\ Head(l).ok
         THEN <<Head(l).arg>> \o SentIds(Tail(l))
         ELSE SentIds(Tail(l))

\* lines 254-265: one send_message of the loop, made by a caller that is at
\* `at` and gets `done` when send_to_sqs returns; a failure is raised again
\* at once
SendMessage(at, done) ==
    /\ pc[H] = at
    /\ idx <= Len(filtered)
    /\ \E ok \in BOOLEAN :
         LET log1 == Append(log, Event("send_message", filtered[idx].webUrl, ok))
         IN /\ log' = log1
            /\ IF SendAborts(ok)
               THEN /\ result' = Raise("SendError")
                    /\ messageId' = messageId
                    /\ idx' = idx
                    /\ pc' = [pc EXCEPT ![H] = "idle"]
               ELSE IF idx = Len(filtered)
               THEN /\ result' = done
                    /\ messageId' = send_to_sqs_returns(SentIds(log1))
                    /\ idx' = idx + 1
                    /\ pc' = [pc EXCEPT ![H] = "idle"]
               ELSE /\ result' = result
                    /\ messageId' = messageId
                    /\ idx' = idx + 1
                    /\ pc' = pc
    /\ UNCHANGED <<today, store, ltoday, read_obj, tracking_data, ret, calls, granted,
                   overlaps, response, records, cfg, articles, filtered, exc, api_key, last>>

\* lines 57-62: the sends of an invocation; after the last one lambda_handler
\* returns the success result
send_to_sqs_send_message == SendMessage("send", Return(200, TRUE, Len(filtered)))

Midnight == NewDay /\ UNCHANGED overlaps /\ UNCHANGED pipeVars

Next ==
    \/ lambda_handler_invoke
    \/ lambda_handler_get_object
    \/ lambda_handler_check_and_put
    \/ lambda_handler_rate_limited
    \/ extract_guardian_articles_validate
    \/ extract_guardian_articles_get_key
    \/ extract_guardian_articles_request
    \/ processed_guardian_articles_skip
    \/ processed_guardian_articles_malformed
    \/ processed_guardian_articles_preview
    \/ lambda_handler_no_articles
    \/ send_to_sqs_validate
    \/ send_to_sqs_send_message
    \/ Midnight

Spec == Init /\ [][Next]_vars

\* ------------------------------------------- SpecSqs: send_to_sqs called
\* on its own, as tests/test_lambda_handler.py calls it: any queue URL in
\* the environment, and None or any list of records as the argument
SqsRecords ==
    { Record(a, ContentPreview(o)) :
        a \in { x \in RawItems : x.webUrl # NoUrl }, o \in PreviewOutcomes }
SqsArgs ==
    {PyNone} \cup { PyList(rs) : rs \in UNION { [1..n -> SqsRecords] : n \in 0..MaxResults } }

\* lines 228-252: the call and its two checks
SqsCall ==
    /\ pc[H] = "idle"
    /\ \E q \in QueueUrls, arg \in SqsArgs :
         /\ cfg' = [NoCfg EXCEPT !.queue = q]
         /\ records' = arg
         /\ filtered' = arg.items
         /\ IF send_to_sqs_check(q, arg) = "ok"
            THEN /\ result' = NoResult
                 /\ idx' = 1
                 /\ pc' = [pc EXCEPT ![H] = "sqs"]
            ELSE /\ result' = Raise(send_to_sqs_check(q, arg))
                 /\ idx' = 0
                 /\ pc' = pc
    /\ messageId' = NotCalled
    /\ log' = <<>>
    /\ UNCHANGED <<today, store, ltoday, read_obj, tracking_data, ret, calls, granted,
                   overlaps, response, articles, exc, api_key, last>>

\* lines 254-265
SqsSend == SendMessage("sqs", Returned)

NextSqs ==
    \/ SqsCall
    \/ SqsSend

SpecSqs == Init /\ [][NextSqs]_vars

\* ------------------------------------------ SpecLoad: the module is loaded
\* (a cold start of the function, or an import by the tests). Its last
\* statement, line 353, calls processed_guardian_articles with a literal term
\* and prints the list it returns
LoadTerm == EnvStr(<<"m", " ", "l">>)

\* lines 1-29, 353, 190, 117-129: the module body runs down to line 353, and
\* extract_guardian_articles validates the term and the secret name
ModuleLoad ==
    /\ pc[H] = "idle"
    /\ \E s \in SecretNames :
         IF ~TermValid(LoadTerm)
         THEN /\ cfg' = [NoCfg EXCEPT !.term = LoadTerm]
              /\ exc' = Exc("ValueError", "Invalid search_term or it must not be empty!")
              /\ result' = Failed("module", Exc("ValueError", "Invalid search_term or it must not be empty!"))
              /\ pc' = pc
         ELSE IF ~Truthy(s)
         THEN /\ cfg' = [NoCfg EXCEPT !.term = LoadTerm, !.secret = s]
              /\ exc' = Exc("GuardianAPIError", "It must not be an empty secret name!")
              /\ result' = Failed("module", Exc("GuardianAPIError", "It must not be an empty secret name!"))
              /\ pc' = pc
         ELSE /\ cfg' = [NoCfg EXCEPT !.term = LoadTerm, !.secret = s]
              /\ exc' = NoExc
              /\ result' = NoResult
              /\ pc' = [pc EXCEPT ![H] = At("module", "secret")]
    /\ articles' = <<>>
    /\ filtered' = <<>>
    /\ idx' = 0
    /\ api_key' = NoKey
    /\ response' = NoResponse
    /\ log' = <<>>
    /\ UNCHANGED <<today, store, ltoday, read_obj, tracking_data, ret, calls, granted,
                   overlaps, records, messageId, last>>

LoadGetKey == ExtractGetKey("module")

LoadRequest == ExtractRequest("module")

LoadSkip == LoopSkip("module")

LoadMalformed == LoopMalformed("module")

LoadPreview == LoopPreview("module")

\* lines 224, 353: the loop is over, the list is returned and printed
LoadDone ==
    /\ pc[H] = At("module", "loop")
    /\ LoopOver
    /\ result' = Returned
    /\ pc' = [pc EXCEPT ![H] = "idle"]
    /\ UNCHANGED <<today, store, ltoday, read_obj, tracking_data, ret, calls, granted,
                   overlaps, response, records, messageId,
                   cfg, articles, filtered, idx, exc, api_key, last, log>>

NextLoad ==
    \/ ModuleLoad
    \/ LoadGetKey
    \/ LoadRequest
    \/ LoadSkip
    \/ LoadMalformed
    \/ LoadPreview
    \/ LoadDone

SpecLoad == Init /\ [][NextLoad]_vars

\* ================================================================ claims
Min(a, b) == IF a < b THEN a ELSE b
\* the handler's latest api_request_count call has returned
CallDone == last.ret # "none"
\* the invocation has ended
Finished == pc[H] = "idle" /\ result.outcome # "none"

\* C1: with one caller at a time, the calls of api_request_count counted for
\* one date return True for exactly the first 50 and False from the 51st on:
\* the number granted is min(calls, 50), and the latest call of the date
\* returned True iff it was one of the first 50.
C1_FirstFiftyGranted ==
    /\ granted = Min(calls, Cap)
    /\ (CallDone /\ last.date = today) => (last.ret = "True" <=> calls <= Cap)

C1_Witness ==
    /\ CallDone
    /\ last.date = today
    /\ calls = Cap + 2
    /\ granted = Cap
    /\ last.ret = "False"

\* C2: a call that reads an object dated otherwise than its today returns
\* True and leaves {date: today, count: 1} in the store, whatever count the
\* object held.
C2_RolloverResetsToOne ==
    (CallDone /\ last.read.exists /\ last.read.date # last.date)
        => /\ last.ret = "True"
           /\ last.after = Object(last.date, 1)
           /\ store = Object(last.date, 1)

C2_Witness ==
    /\ CallDone
    /\ last.read.exists
    /\ last.read.date # last.date
    /\ last.read.count = Cap
    /\ store = Object(last.date, 1)

\* C3: a call that returns False has read today's object with count >= 50 and
\* has written nothing: the stored object is the one it read.
C3_DeniedCallWritesNothing ==
    (CallDone /\ last.ret = "False")
        => /\ last.read.exists
           /\ last.read.date = last.date
           /\ last.read.count >= Cap
           /\ last.after = last.read
           /\ store = last.read
           /\ Count("put_object") = 0

C3_Witness ==
    /\ CallDone
    /\ last.ret = "False"
    /\ store = Object(today, Cap)

\* C4: a call that finds no object returns True and leaves one object
\* {date: today, count: 1} in the bucket.
C4_MissingObjectCreated ==
    (CallDone /\ ~last.read.exists)
        => /\ last.ret = "True"
           /\ store.exists
           /\ store = Object(last.date, 1)

C4_Witness ==
    /\ CallDone
    /\ ~last.read.exists
    /\ last.ret = "True"
    /\ store = Object(today, 1)

\* C5: between two successive stored states that carry the same date the
\* stored count never decreases, whatever the interleaving of the callers.
C5_CountNeverDecreases ==
    [][(store.exists /\ store'.exists /\ store'.date = store.date)
          => store'.count >= store.count]_vars

\* C6: put_object is unconditional: a call that has read count N < 50 for its
\* date returns True and overwrites the object with {date, N + 1}, whatever
\* the other callers have written since it read; two callers that both read N
\* are thus both granted and both write N + 1.
C6_StaleReadStillGranted ==
    [][\A p \in Procs :
          (pc[p] = "check" /\ pc'[p] # "check"
             /\ tracking_data[p].date = ltoday[p] /\ tracking_data[p].count < Cap)
          => /\ ret'[p] = "True"
             /\ store' = Object(ltoday[p], tracking_data[p].count + 1)]_vars

\* more than 50 calls have returned True on the current date, and the stored
\* count shows 50
C6_Witness ==
    /\ granted > Cap
    /\ store = Object(today, Cap)

\* C7: with at most NumProcs calls in flight at any moment, at most
\* 50 + NumProcs calls return True on one date.
C7_GrantedAtMostCapPlusK == granted <= Cap + NumProcs

\* C8: when api_request_count returns False, lambda_handler returns the
\* result {status_code: 429, success: False} without raising, and the
\* invocation makes no secret lookup, no search request, no preview fetch and
\* no queue send.
C8_DeniedReturns429 ==
    (CallDone /\ last.ret = "False")
        => /\ Count("get_secret_value") = 0
           /\ Count("search") = 0
           /\ Count("preview") = 0
           /\ Count("send_message") = 0
           /\ pc[H] \in {"budget", "idle"}
           /\ (pc[H] = "idle" => result = Return(429, FALSE, 0))

C8_Witness ==
    /\ CallDone
    /\ last.ret = "False"
    /\ Finished
    /\ result.status_code = 429
    /\ ~result.success

\* the search request was answered with a well-formed response
SearchAnswered == \E i \in 1..Len(log) : log[i].op = "search" /\ log[i].ok

\* C9: when the budget permits and the search returns an empty sequence,
\* lambda_handler raises NoArticlesFoundError; send_to_sqs is never entered
\* (the queue URL is not read) and no message is sent.
C9_EmptySearchRaisesNoArticles ==
    (CallDone /\ last.ret = "True" /\ SearchAnswered /\ articles = <<>>)
        => /\ Finished
           /\ result = Raise("NoArticlesFoundError")
           /\ cfg.queue = Unread
           /\ Count("send_message") = 0
           /\ Count("preview") = 0

C9_Witness ==
    /\ CallDone
    /\ last.ret = "True"
    /\ SearchAnswered
    /\ articles = <<>>
    /\ result.error = "NoArticlesFoundError"

AllHaveUrl == \A i \in 1..Len(articles) : articles[i].webUrl # NoUrl
NoSendFailed == \A i \in 1..Len(log) : log[i].op = "send_message" => log[i].ok

\* C10 as stated: when the budget permits, the search returns n >= 1 results
\* that all have a URL, and no queue send fails, the invocation ends with
\* exactly n messages sent and the success result reporting n.
C10_AsStated ==
    (Finished /\ last.ret = "True" /\ SearchAnswered /\ Len(articles) >= 1
       /\ AllHaveUrl /\ NoSendFailed)
        => /\ CountOk("send_message") = Len(articles)
           /\ result = Return(200, TRUE, Len(articles))

\* C10 amended: the same, provided the queue URL is set and not blank.
C10_PublishedAll ==
    (Finished /\ last.ret = "True" /\ SearchAnswered /\ Len(articles) >= 1
       /\ AllHaveUrl /\ QueueUrlValid(cfg.queue) /\ NoSendFailed)
        => /\ Count("send_message") = Len(articles)
           /\ CountOk("send_message") = Len(articles)
           /\ \A i \in 1..Len(articles) :
                \E j \in 1..Len(log) :
                   /\ log[j].op = "send_message"
                   /\ log[j].arg = articles[i].webUrl
           /\ Len(filtered) = Len(articles)
           /\ result = Return(200, TRUE, Len(articles))

C10_Witness ==
    /\ Finished
    /\ last.ret = "True"
    /\ Len(articles) = 2
    /\ AllHaveUrl
    /\ CountOk("send_message") = 2
    /\ result = Return(200, TRUE, 2)

\* a value that is not a string, or a string of blanks only (the empty one too)
Blank(v) == ~v.isstr \/ \A i \in 1..Len(v.chars) : v.chars[i] = " "

\* C11: an invocation whose search term is empty, whitespace-only or unset,
\* or whose secret identifier is unset, ends with that input-validation or
\* configuration error itself raised to the runtime: ValueError for the
\* term, GuardianAPIError for the secret name, never NoArticlesFoundError.
C11_ValidationErrorReachesRuntime ==
    /\ (Finished /\ cfg.term.read /\ Blank(cfg.term)) => result = Raise("ValueError")
    /\ (Finished /\ cfg.secret.read /\ ~cfg.secret.isstr)
          => result = Raise("GuardianAPIError")

ResolverFailed == \E i \in 1..Len(log) : log[i].op = "get_secret_value" /\ ~log[i].ok

\* C12: when get_guardian_api_key reports a failure (ClientError, missing
\* credentials or an unexpected error, each returned as a value),
\* extract_guardian_articles fails with the "Unable to fetch API KEY" error
\* and issues no search request.
C12_FailedResolverStopsSearch ==
    ResolverFailed
        => /\ pc[H] # "search"
           /\ Count("search") = 0
           /\ exc = Exc("GuardianAPIError", "Unable to fetch API KEY, check secret_name!")

HasUrl(a) == a.webUrl # NoUrl
\* the results the loop of processed_guardian_articles has gone through
Processed ==
    IF pc[H] = "loop" \/ result.error = "AttributeError"
    THEN SubSeq(articles, 1, idx - 1)
    ELSE articles

\* C13: the output of processed_guardian_articles is exactly the
\* subsequence, in the original order, of the raw results that have a
\* non-empty webUrl: every record has a non-empty url and a result without
\* one never yields a record. It holds at every point of the loop for the
\* results gone through so far, hence for the list returned.
C13_OutputIsUrlSubsequence ==
    LET want == SelectSeq(Processed, HasUrl)
    IN /\ Len(filtered) = Len(want)
       /\ \A j \in 1..Len(filtered) :
            /\ filtered[j].webUrl = want[j].webUrl
            /\ filtered[j].webTitle = want[j].webTitle
            /\ filtered[j].webUrl # NoUrl

C13_Witness ==
    /\ pc[H] = "send"
    /\ Len(articles) = 2
    /\ ~HasUrl(articles[1])
    /\ HasUrl(articles[2])
    /\ Len(filtered) = 1
    /\ filtered[1].webUrl = articles[2].webUrl

\* C14: a failure while building the record of one item (a preview fetch
\* that raises, or a malformed item) never prevents the records of the
\* other URL-bearing results from being emitted: once the invocation is
\* over, every result with a URL has its record in the list and
\* processed_guardian_articles has returned that list, not raised.
C14_ItemFailureIsIsolated ==
    (Finished /\ SearchAnswered)
        => \A i \in 1..Len(articles) :
              HasUrl(articles[i])
                  => /\ \E j \in 1..Len(filtered) : filtered[j].webUrl = articles[i].webUrl
                     /\ result.error # "AttributeError"

\* a direct call of send_to_sqs is over
SqsCallOver == records.passed /\ pc[H] = "idle" /\ result.outcome # "none"

\* C15: send_to_sqs rejects bad calls before any send. With the queue URL
\* unset or blank it raises ValueError whatever the records argument is,
\* an empty list included; with the URL set and the records empty or None
\* it raises a different error, NoArticlesFoundError; in both cases no
\* message has been sent.
C15_BadCallsRejectedBeforeSend ==
    SqsCallOver
        => /\ Blank(cfg.queue)
                => (result = Raise("ValueError") /\ Count("send_message") = 0)
           /\ (~Blank(cfg.queue) /\ (records = PyNone \/ records = PyList(<<>>)))
                => (result = Raise("NoArticlesFoundError") /\ Count("send_message") = 0)

C15_Witness ==
    /\ SqsCallOver
    /\ cfg.queue = EnvStr(<<" ">>)
    /\ records = PyList(<<>>)
    /\ result = Raise("ValueError")

IsSend(e) == e.op = "send_message"
\* the send_message calls made so far, oldest first
Sends == SelectSeq(log, IsSend)

\* C16: send_to_sqs sends the records one at a time in list order: the k-th
\* send_message carries the k-th record. If the send of record i fails the
\* error is raised at once: the records before i were each sent once and
\* stay sent, record i is not sent again, and no record after i is sent.
C16_SendsInOrderStopAtFailure ==
    /\ Len(Sends) <= Len(filtered)
    /\ \A k \in 1..Len(Sends) :
         /\ Sends[k].arg = filtered[k].webUrl
         /\ k < Len(Sends) => Sends[k].ok
         /\ ~Sends[k].ok => (pc[H] = "idle" /\ result = Raise("SendError"))

C16_Witness ==
    /\ Len(filtered) = 2
    /\ filtered[1].webUrl # filtered[2].webUrl
    /\ Len(Sends) = 1
    /\ ~Sends[1].ok
    /\ result = Raise("SendError")

\* C17: when every send succeeds, send_to_sqs returns a list holding one
\* message identifier per record, in record order.
C17_ReturnsMessageIds ==
    (SqsCallOver /\ result.outcome = "return")
        => messageId = ReturnedIds([k \in 1..Len(filtered) |-> filtered[k].webUrl])

\* C18: extract_guardian_articles called with an empty, whitespace-only or
\* non-string term fails with ValueError before the secret identifier is
\* read, before get_guardian_api_key is called and before any request.
C18_BadTermFailsFirst ==
    (cfg.term.read /\ Blank(cfg.term))
        => /\ exc = Exc("ValueError", "Invalid search_term or it must not be empty!")
           /\ cfg.secret = Unread
           /\ api_key = NoKey
           /\ Count("get_secret_value") = 0
           /\ Count("search") = 0

C18_Witness ==
    /\ cfg.term = EnvStr(<<" ", " ">>)
    /\ exc.kind = "ValueError"
    /\ cfg.secret = Unread
    /\ Count("get_object") = 1

\* C19: with a valid term and a usable credential, extract_guardian_articles
\* returns the results sequence of a well-formed response unmodified and
\* in the same order; an empty results list yields the empty sequence and
\* no exception.
C19_ResultsReturnedUnmodified ==
    (response.arrived /\ ~ResolverFailed)
        => /\ articles = response.results
           /\ exc = NoExc

C19_Witness ==
    /\ response.arrived
    /\ ~ResolverFailed
    /\ Len(response.results) = 2
    /\ response.results[1] # response.results[2]
    /\ articles = response.results

\* C20: get_content_preview never raises: whatever the outcome of the page
\* fetch (paragraphs, no paragraphs, an HTTP error status, a transport
\* failure or any other internal error) it returns a string. So the caller
\* never takes the except branch of lines 212-215, and no record carries
\* the text that branch substitutes for the preview.
C20_PreviewNeverRaises ==
    \A j \in 1..Len(filtered) :
        filtered[j].content_preview # "Content preview is not avaiable."

\* the exceptions of extract_guardian_articles that are authentication or
\* source errors: unusable credential, timeout, connection failure, HTTP
\* error status, malformed response
SourceErrors ==
    { Exc("GuardianAPIError", "Unable to fetch API KEY, check secret_name!"),
      Exc("GuardianAPIError", "Raise Timeout Error"),
      Exc("GuardianAPIError", "Connection Error"),
      Exc("GuardianAPIError", "Exception: HTTPError"),
      Exc("GuardianAPIError", "Exception: Unexcepted API response") }

\* C21: an authentication or source error of the search step is caught
\* inside processed_guardian_articles and treated as zero articles: it does
\* not propagate as itself, and the invocation ends with
\* NoArticlesFoundError without any preview fetch or queue send.
C21_SourceErrorSoftFails ==
    exc \in SourceErrors
        => /\ Finished
           /\ result = Raise("NoArticlesFoundError")
           /\ articles = <<>>
           /\ filtered = <<>>
           /\ Count("preview") = 0
           /\ Count("send_message") = 0
           /\ cfg.queue = Unread

C21_Witness ==
    /\ exc = Exc("GuardianAPIError", "Exception: HTTPError")
    /\ Count("search") = 1
    /\ result = Raise("NoArticlesFoundError")

\* C22: a search request is issued only after api_request_count returned
\* True for it: in every execution, module load included, each search
\* request is preceded by a successful api_request_count call of its own
\* (the put_object of a granted call).
C22_SearchOnlyAfterBudget ==
    \A i \in 1..Len(log) :
        log[i].op = "search" => \E j \in 1..(i - 1) : log[j].op = "put_object"

\* failures of the request itself, before any response body is looked at
TransportFailures == {"Timeout", "ConnectionError"}

\* C23: a structurally malformed response makes extract_guardian_articles
\* fail with an error distinct in kind from the error it raises for a
\* transport failure.
C23_MalformedIsDistinctKind ==
    exc = SearchError("malformed")
        => \A o \in TransportFailures : exc.kind # SearchError(o).kind

IsPreview(e) == e.op = "preview"
\* the preview fetches made so far, oldest first
Previews == SelectSeq(log, IsPreview)
\* the results that have a URL, in result order
UrlResults == SelectSeq(articles, HasUrl)

\* C24: within one invocation the steps are sequential and ordered: the
\* k-th preview fetch is for the k-th result that has a URL; every preview
\* fetch of the invocation is made before the first queue send (once a send
\* has been made, all the URL-bearing results have had their fetch, and a
\* send is followed by sends only); and the k-th send carries the k-th record, which
\* is the record of the k-th URL-bearing result.
C24_StepsInOrder ==
    LET ps == Previews
        us == UrlResults
        ss == Sends
    IN /\ Len(ps) <= Len(us)
       /\ \A k \in 1..Len(ps) : ps[k].arg = us[k].webUrl
       /\ \A i \in 1..(Len(log) - 1) :
            log[i].op = "send_message" => log[i + 1].op = "send_message"
       /\ Len(ss) >= 1 => Len(ps) = Len(us)
       /\ Len(ss) <= Len(ps)
       /\ \A k \in 1..Len(ss) : ss[k].arg = ps[k].arg

C24_Witness ==
    /\ Finished
    /\ Len(UrlResults) = 2
    /\ UrlResults[1].webUrl # UrlResults[2].webUrl
    /\ Len(Previews) = 2
    /\ Len(Sends) = 2

\* C25: in every reachable state, under any interleaving of concurrent
\* callers and any date rollover, the counter object api_request_count has
\* written holds a count between 1 and 50: the stored count never exceeds
\* the cap, even when the number of calls granted on the date does.
C25_StoredCountWithinCap ==
    store.exists => (store.count >= 1 /\ store.count <= Cap)

\* after a rollover, 51 calls have been granted on the date and the object
\* shows 50
C25_Witness ==
    /\ today > 1
    /\ granted = Cap + 1
    /\ store = Object(today, Cap)

\* C26: every invocation that passes the budget check increments the
\* stored count exactly once, and the increment is never undone, however the
\* invocation goes on (search failed or not issued, no articles, a send
\* that aborts): the object written by the granted call stays as written,
\* one above the count read (1 after a reset), and the count stored for
\* the date is the number of calls granted on it.
C26_IncrementStays ==
    /\ (CallDone /\ last.ret = "True")
          => /\ store = last.after
             /\ last.after.count =
                  IF last.read.exists /\ last.read.date = last.date
                  THEN last.read.count + 1 ELSE 1
    /\ (store.exists /\ store.date = today) => store.count = granted

====
